---- MODULE Spec2Model ----
(***************************************************************************)
(* One invocation of dependencies.py (georgejkaye/circuit-cj).             *)
(*                                                                         *)
(* Python strings are TLA+ strings (\o is concatenation), Python lists are *)
(* sequences, JSON objects are records whose DOMAIN is the set of keys     *)
(* present, so that a subscript of a missing key is a KeyError.  Standard  *)
(* output is the sequence of lines printed so far.  exit(n) raises         *)
(* SystemExit, which nothing catches: the process ends with status n.  An  *)
(* uncaught exception ends the process with status 1 and a traceback on    *)
(* standard error, nothing more on standard output.                        *)
(***************************************************************************)
EXTENDS Integers, Sequences, FiniteSets, TLC

VARIABLES
    argv,            \* sys.argv; argv[1] is Python's sys.argv[0]
    pc,              \* position in the __main__ block
    cpm,             \* <<>> or <<outcome>> of subprocess.run(["cpm","update"])
    module_resolve,  \* <<>> or <<data>>: the local of line 60
    module,          \* <<>> or <<data>>: the local of line 61
    stdout,          \* the lines printed so far
    exit_status,     \* <<>> while running, <<n>> once the process has ended
    raised,          \* "" or the name of the uncaught exception
    trace            \* the external events of the invocation, in order

vars == <<argv, pc, cpm, module_resolve, module, stdout, exit_status, raised, trace>>

----------------------------------------------------------------------------
(* Bounds and input sets *)

MaxEntries == 3

Prog == "dependencies.py"

ModuleName == "m"

\* the command lines tried: none, each mode well-formed, each mode malformed
Argvs ==
    { <<Prog>>,
      <<Prog, "--package", "a">>,
      <<Prog, "--package", "b">>,
      <<Prog, "--package">>,
      <<Prog, "--package", "a", "b">>,
      <<Prog, "--order">>,
      <<Prog, "--order", "a">>,
      <<Prog, "--bogus">> }

\* requires lists of a package entry
RequiresLists == { <<>>, <<"a">>, <<"a", "b">>, <<"b", "a">> }

\* entries of module "m": with a requires list, or with the field missing
\* (every entry carries packageName, as cpm writes it)
LookupEntries ==
    { [packageName |-> n, requires |-> r] : n \in {"m/a", "m/b"}, r \in RequiresLists }
        \cup { [packageName |-> n] : n \in {"m/a", "m/b"} }

\* entries named A, B, C
OrderEntries ==
    { [packageName |-> n, requires |-> <<>>] : n \in {"A", "B", "C"} }
        \cup { [packageName |-> n] : n \in {"A", "B", "C"} }

SeqsUpTo(S, n) == UNION { [1..k -> S] : k \in 0..n }

Docs == SeqsUpTo(LookupEntries, MaxEntries) \cup SeqsUpTo(OrderEntries, MaxEntries)

\* what open("module-resolve.json") + json.load can find
ResolveFiles ==
    { [file |-> "absent"], [file |-> "invalid"],
      [file |-> "json", data |-> [version |-> "1"]] }
        \cup { [file |-> "json", data |-> [resolves |-> d]] : d \in Docs }

\* what open("module.json") + json.load can find
ModuleFiles ==
    { [file |-> "absent"], [file |-> "invalid"],
      [file |-> "json", data |-> [version |-> "1"]],
      [file |-> "json", data |-> [name |-> ModuleName]] }

\* what subprocess.run(["cpm","update"]) can do: OSError when the program
\* cannot be started, else a CompletedProcess with some return code
CpmOutcomes == { "launch_failed", "nonzero", "zero" }

----------------------------------------------------------------------------
(* How a function call ends *)

Exit(lines, n) == [out |-> lines, status |-> n, raised |-> ""]

Raise(lines, e) == [out |-> lines, status |-> 1, raised |-> e]

----------------------------------------------------------------------------
(* package_dependencies *)

full_dependency(dependency) == "build/" \o dependency \o ".cjo"

\* each token put in front of the output instead of behind it
RECURSIVE DependencyLine_reversed(_, _)
DependencyLine_reversed(output, requires) ==
    IF requires = <<>> THEN output
    ELSE DependencyLine_reversed(full_dependency(Head(requires)) \o " " \o output,
                                 Tail(requires))

\* lines 11-14: output starts "" and grows by one token and one space
RECURSIVE DependencyLine(_, _)
DependencyLine(output, requires) ==
    IF requires = <<>> THEN output
    ELSE DependencyLine(output \o full_dependency(Head(requires)) \o " ",
                        Tail(requires))

\* f"{module_name}/{package_name}"
Key(module_name, package_name) == module_name \o "/" \o package_name

\* package["requires"] read as package.get("requires", [])
MatchedPackage_default(package) ==
    Exit(<<DependencyLine("", IF "requires" \in DOMAIN package
                              THEN package.requires ELSE <<>>)>>, 0)

\* lines 11-16, for the entry whose packageName equals the key
MatchedPackage(package) ==
    IF "requires" \in DOMAIN package
    THEN Exit(<<DependencyLine("", package.requires)>>, 0)
    ELSE Raise(<<>>, "KeyError")

\* the message printed, the status left at 0
NotFound_exit0(key) == Exit(<<"Package " \o key \o " not found">>, 0)

\* lines 17-18
NotFound(key) == Exit(<<"Package " \o key \o " not found">>, 1)

\* lines 9-18: the loop over module_resolve["resolves"], then the fall-out
RECURSIVE ScanPackages(_, _)
ScanPackages(resolves, key) ==
    IF resolves = <<>> THEN NotFound(key)
    ELSE IF Head(resolves).packageName = key
         THEN MatchedPackage(Head(resolves))
         ELSE ScanPackages(Tail(resolves), key)

package_dependencies(mr, mod, package_name) ==
    IF "name" \notin DOMAIN mod THEN Raise(<<>>, "KeyError")
    ELSE IF "resolves" \notin DOMAIN mr THEN Raise(<<>>, "KeyError")
    ELSE ScanPackages(mr.resolves, Key(mod.name, package_name))

----------------------------------------------------------------------------
(* dependency_order *)

\* lines 22-24
RECURSIVE PackageNames(_)
PackageNames(resolves) ==
    IF resolves = <<>> THEN <<>>
    ELSE <<Head(resolves).packageName>> \o PackageNames(Tail(resolves))

\* list.reverse()
Reverse(s) == [i \in 1..Len(s) |-> s[Len(s) + 1 - i]]

\* order[0:]
SliceFrom1_keepall(order) == order

\* order[1:]
SliceFrom1(order) == IF order = <<>> THEN <<>> ELSE Tail(order)

\* lines 26-28
RECURSIVE OrderLine(_, _)
OrderLine(output, order) ==
    IF order = <<>> THEN output
    ELSE OrderLine(output \o Head(order) \o " ", Tail(order))

\* the list not reversed
RenderedOrder_noreverse(resolves) == SliceFrom1(PackageNames(resolves))

\* lines 22-27: the names, reversed, without the first of the reversed list
RenderedOrder(resolves) == SliceFrom1(Reverse(PackageNames(resolves)))

dependency_order(mr) ==
    IF "resolves" \notin DOMAIN mr THEN Raise(<<>>, "KeyError")
    ELSE Exit(<<OrderLine("", RenderedOrder(mr.resolves))>>, 0)

----------------------------------------------------------------------------
(* bad_arguments *)

UsageText(argv0) ==
    << "usage: python " \o argv0
           \o " mode <module name> <module-resolve.json path> <package>",
       "",
       "    python " \o argv0
           \o " --package graphs # Find dependencies of package graphs",
       "    python " \o argv0
           \o " --order          # Get the dependency order of the module" >>

bad_arguments(argv0) == Exit(UsageText(argv0), 1)

----------------------------------------------------------------------------
(* The __main__ block *)

\* exit(0) of lines 16 and 30 returning: line 67 is reached after the call
Dispatch_fallthrough(av, mr, mod) ==
    LET called == IF Len(av) = 3 /\ av[2] = "--package"
                  THEN package_dependencies(mr, mod, av[3])
                  ELSE IF Len(av) = 2 /\ av[2] = "--order"
                  THEN dependency_order(mr)
                  ELSE Exit(<<>>, 0)
    IN  IF called.raised # "" THEN called
        ELSE Exit(called.out \o UsageText(av[1]), 1)

\* lines 62-67: what the dispatcher prints and how the process ends
Dispatch(av, mr, mod) ==
    IF Len(av) = 3 /\ av[2] = "--package"
    THEN package_dependencies(mr, mod, av[3])
    ELSE IF Len(av) = 2 /\ av[2] = "--order"
    THEN dependency_order(mr)
    ELSE bad_arguments(av[1])

Prints(lines) == [i \in 1..Len(lines) |-> "print"]

\* the process ends as the call result says
Finish(result) ==
    /\ stdout' = stdout \o result.out
    /\ exit_status' = <<result.status>>
    /\ raised' = result.raised
    /\ trace' = trace \o Prints(result.out)
    /\ pc' = "done"

Init ==
    /\ argv \in Argvs
    /\ pc = "main"
    /\ cpm = <<>>
    /\ module_resolve = <<>>
    /\ module = <<>>
    /\ stdout = <<>>
    /\ exit_status = <<>>
    /\ raised = ""
    /\ trace = <<>>

\* lines 58-59
CheckArgc ==
    /\ pc = "main"
    /\ IF Len(argv) < 2
       THEN /\ Finish(bad_arguments(argv[1]))
            /\ UNCHANGED <<argv, cpm, module_resolve, module>>
       ELSE /\ pc' = "get_module_resolve"
            /\ UNCHANGED <<argv, cpm, module_resolve, module, stdout,
                           exit_status, raised, trace>>

\* get_module_resolve opening the file before running the update
get_module_resolve_readfirst ==
    /\ pc = "get_module_resolve"
    /\ \E outcome \in CpmOutcomes, f \in ResolveFiles :
         IF f.file # "json"
         THEN /\ stdout' = stdout
              /\ exit_status' = <<1>>
              /\ raised' = (IF f.file = "absent" THEN "FileNotFoundError"
                            ELSE "JSONDecodeError")
              /\ trace' = Append(trace, "open module-resolve.json")
              /\ pc' = "done"
              /\ UNCHANGED <<argv, cpm, module_resolve, module>>
         ELSE IF outcome = "launch_failed"
         THEN /\ stdout' = stdout
              /\ exit_status' = <<1>>
              /\ raised' = "FileNotFoundError"
              /\ trace' = trace \o <<"open module-resolve.json", "cpm update: not started">>
              /\ pc' = "done"
              /\ UNCHANGED <<argv, cpm, module_resolve, module>>
         ELSE /\ cpm' = <<outcome>>
              /\ module_resolve' = <<f.data>>
              /\ trace' = trace \o <<"open module-resolve.json", "cpm update: returned">>
              /\ pc' = "get_module"
              /\ UNCHANGED <<argv, module, stdout, exit_status, raised>>

\* line 60 with lines 44-48: subprocess.run has no check=True, so only a
\* failure to start the program raises; the return code is not looked at
get_module_resolve ==
    /\ pc = "get_module_resolve"
    /\ \E outcome \in CpmOutcomes, f \in ResolveFiles :
         IF outcome = "launch_failed"
         THEN /\ stdout' = stdout
              /\ exit_status' = <<1>>
              /\ raised' = "FileNotFoundError"
              /\ trace' = Append(trace, "cpm update: not started")
              /\ pc' = "done"
              /\ UNCHANGED <<argv, cpm, module_resolve, module>>
         ELSE IF f.file # "json"
         THEN /\ stdout' = stdout
              /\ exit_status' = <<1>>
              /\ raised' = (IF f.file = "absent" THEN "FileNotFoundError"
                            ELSE "JSONDecodeError")
              /\ trace' = trace \o <<"cpm update: returned", "open module-resolve.json">>
              /\ pc' = "done"
              /\ cpm' = <<outcome>>
              /\ UNCHANGED <<argv, module_resolve, module>>
         ELSE /\ cpm' = <<outcome>>
              /\ module_resolve' = <<f.data>>
              /\ trace' = trace \o <<"cpm update: returned", "open module-resolve.json">>
              /\ pc' = "get_module"
              /\ UNCHANGED <<argv, module, stdout, exit_status, raised>>

\* line 61 with lines 51-54
get_module ==
    /\ pc = "get_module"
    /\ \E f \in ModuleFiles :
         IF f.file # "json"
         THEN /\ stdout' = stdout
              /\ exit_status' = <<1>>
              /\ raised' = (IF f.file = "absent" THEN "FileNotFoundError"
                            ELSE "JSONDecodeError")
              /\ trace' = Append(trace, "open module.json")
              /\ pc' = "done"
              /\ UNCHANGED <<argv, cpm, module_resolve, module>>
         ELSE /\ module' = <<f.data>>
              /\ trace' = Append(trace, "open module.json")
              /\ pc' = "dispatch"
              /\ UNCHANGED <<argv, cpm, module_resolve, stdout, exit_status, raised>>

\* lines 62-67
main_dispatch ==
    /\ pc = "dispatch"
    /\ Finish(Dispatch(argv, module_resolve[1], module[1]))
    /\ UNCHANGED <<argv, cpm, module_resolve, module>>

Next ==
    \/ CheckArgc
    \/ get_module_resolve
    \/ get_module
    \/ main_dispatch

Spec == Init /\ [][Next]_vars

----------------------------------------------------------------------------
(* Vocabulary of the properties *)

IsPackage == Len(argv) = 3 /\ argv[2] = "--package"

IsOrder == Len(argv) = 2 /\ argv[2] = "--order"

Done == pc = "done"

\* the dispatcher of lines 62-67 was reached and has ended the process
Dispatched == pc = "done" /\ module_resolve # <<>> /\ module # <<>>

HasResolves == module_resolve # <<>> /\ "resolves" \in DOMAIN module_resolve[1]

HasName == module # <<>> /\ "name" \in DOMAIN module[1]

Resolves == module_resolve[1].resolves

RequestedKey == module[1].name \o "/" \o argv[3]

Matches == { i \in 1..Len(Resolves) : Resolves[i].packageName = RequestedKey }

FirstMatch == CHOOSE i \in Matches : \A j \in Matches : i <= j

UniqueNames ==
    \A i, j \in 1..Len(Resolves) :
        Resolves[i].packageName = Resolves[j].packageName => i = j

CharAt(s, i) == SubSeq(s, i, i)

SpaceTerminated(line) == line = "" \/ CharAt(line, Len(line)) = " "

\* the maximal space-free pieces of a line, each one ended by a space (a last
\* piece with no space after it counts as a piece too)
RECURSIVE TokensOf(_)
TokensOf(line) ==
    IF line = "" THEN <<>>
    ELSE IF \A i \in 1..Len(line) : CharAt(line, i) # " " THEN <<line>>
    ELSE LET k == CHOOSE i \in 1..Len(line) :
                      /\ CharAt(line, i) = " "
                      /\ \A j \in 1..(i - 1) : CharAt(line, j) # " "
         IN  <<SubSeq(line, 1, k - 1)>> \o TokensOf(SubSeq(line, k + 1, Len(line)))

ArtifactPaths(requires) ==
    [i \in 1..Len(requires) |-> "build/" \o requires[i] \o ".cjo"]

StartsWith(line, prefix) ==
    Len(line) >= Len(prefix) /\ SubSeq(line, 1, Len(prefix)) = prefix

IsNotFoundLine(line) == StartsWith(line, "Package ") /\ ~SpaceTerminated(line)

IsUsage(lines) == Len(lines) = 4 /\ StartsWith(lines[1], "usage: python ")

\* event e occurs in the trace, and before position n
Before(e, n) == \E k \in 1..(n - 1) : trace[k] = e

EventOrder ==
    \A n \in 1..Len(trace) :
        /\ trace[n] = "open module-resolve.json" => Before("cpm update: returned", n)
        /\ trace[n] = "open module.json" => Before("open module-resolve.json", n)
        /\ trace[n] = "print" =>
               /\ Before("cpm update: returned", n)
               /\ Before("open module-resolve.json", n)
               /\ Before("open module.json", n)

----------------------------------------------------------------------------
(* Properties *)

\* C1: with unique packageNames and an entry named m/p, --package p prints
\* exactly one line, the tokens build/<d>.cjo for the d of that entry's
\* requires in their order, each followed by one space, and exits 0.
C1_LookupPrintsRequires ==
    (Dispatched /\ IsPackage /\ HasName /\ HasResolves) =>
        ((UniqueNames /\ Matches # {} /\ "requires" \in DOMAIN Resolves[FirstMatch]) =>
            /\ Len(stdout) = 1
            /\ SpaceTerminated(stdout[1])
            /\ TokensOf(stdout[1]) = ArtifactPaths(Resolves[FirstMatch].requires)
            /\ exit_status = <<0>>
            /\ raised = "")

C1_Witness ==
    /\ Dispatched /\ IsPackage /\ HasName /\ HasResolves
    /\ UniqueNames
    /\ Len(Resolves) = 2
    /\ Resolves[2] = [packageName |-> "m/a", requires |-> <<"b", "a">>]
    /\ stdout = <<"build/b.cjo build/a.cjo ">>
    /\ exit_status = <<0>>

\* C2: when no entry is named m/p, --package p exits 1 having printed the
\* not-found message naming m/p and nothing else.
C2_AbsentKeyNotFound ==
    (Dispatched /\ IsPackage /\ HasName /\ HasResolves) =>
        (Matches = {} =>
            /\ exit_status = <<1>>
            /\ raised = ""
            /\ stdout = <<"Package " \o RequestedKey \o " not found">>
            /\ \A t \in 1..Len(TokensOf(stdout[1])) :
                   ~StartsWith(TokensOf(stdout[1])[t], "build/"))

C2_Witness ==
    /\ Dispatched /\ IsPackage /\ HasName /\ HasResolves
    /\ Len(Resolves) = 2
    /\ \A i \in 1..2 : Resolves[i].packageName = "m/b"
    /\ stdout = <<"Package m/a not found">>
    /\ exit_status = <<1>>

\* C3 as stated: --order over the names A, B, C prints "C B ".
C3_Original ==
    (Dispatched /\ IsOrder /\ HasResolves) =>
        ((Len(Resolves) = 3
            /\ [i \in 1..3 |-> Resolves[i].packageName] = <<"A", "B", "C">>) =>
         stdout = <<"C B ">>)

\* C3 amended: --order over the names A, B, C (C last, the root) prints
\* "B A " and exits 0.
C3_OrderOfABC ==
    (Dispatched /\ IsOrder /\ HasResolves) =>
        ((Len(Resolves) = 3
            /\ [i \in 1..3 |-> Resolves[i].packageName] = <<"A", "B", "C">>) =>
         (stdout = <<"B A ">> /\ exit_status = <<0>>))

C3_Witness ==
    /\ Dispatched /\ IsOrder /\ HasResolves
    /\ Len(Resolves) = 3
    /\ [i \in 1..3 |-> Resolves[i].packageName] = <<"A", "B", "C">>
    /\ stdout = <<"B A ">>

\* C4: --order over n entries prints one line, the packageNames in reversed
\* document order without the last entry of the document, each followed by
\* one space, and exits 0; n = 0 and n = 1 give the empty line.
C4_OrderReversedWithoutRoot ==
    (Dispatched /\ IsOrder /\ HasResolves) =>
        LET n == Len(Resolves) IN
            /\ Len(stdout) = 1
            /\ SpaceTerminated(stdout[1])
            /\ TokensOf(stdout[1]) =
                   [i \in 1..(IF n = 0 THEN 0 ELSE n - 1) |-> Resolves[n - i].packageName]
            /\ (n <= 1 => stdout[1] = "")
            /\ exit_status = <<0>>
            /\ raised = ""

C4_Witness ==
    /\ Dispatched /\ IsOrder /\ HasResolves
    /\ Len(Resolves) = 3
    /\ [i \in 1..3 |-> Resolves[i].packageName] = <<"m/a", "m/b", "m/a">>
    /\ stdout = <<"m/b m/a ">>
    /\ exit_status = <<0>>

\* C5 as stated: after cpm update failed to start or returned non-zero, the
\* invocation never reads module-resolve.json, prints a line and exits 0.
C5_Original ==
    ~(/\ (cpm = <<"nonzero">> \/ (\E n \in 1..Len(trace) : trace[n] = "cpm update: not started"))
      /\ \E n \in 1..Len(trace) : trace[n] = "open module-resolve.json"
      /\ stdout # <<>>
      /\ exit_status = <<0>>)

\* C6 as stated: missing or malformed arguments end in the usage text and
\* exit status 1, whatever cpm and the two files do.
C6_Original ==
    (Done /\ ~IsPackage /\ ~IsOrder) =>
        (stdout = UsageText(argv[1]) /\ exit_status = <<1>>)

\* C7 as stated: --order, once the update has run (here: and returned 0) and
\* module-resolve.json has parsed to a document with resolves, prints the
\* order line and exits 0, whatever module.json is.
C7_Original ==
    (Done /\ IsOrder /\ cpm = <<"zero">> /\ HasResolves) =>
        (Len(stdout) = 1 /\ exit_status = <<0>>)

\* C8 as stated: a manifest with an entry lacking requires makes --package
\* and --order abort, never exit 0 with a result line (here: even with the
\* update returning 0 and module.json naming the module).
C8_Original ==
    (Dispatched /\ (IsPackage \/ IsOrder) /\ cpm = <<"zero">> /\ HasName /\ HasResolves) =>
        ((\E i \in 1..Len(Resolves) : "requires" \notin DOMAIN Resolves[i]) =>
            (raised # "" /\ exit_status = <<1>> /\ stdout = <<>>))

\* C8 amended: when the first entry named m/p lacks requires, --package p
\* ends in a KeyError: status 1, nothing printed.
C8_MatchedEntryWithoutRequires ==
    (Dispatched /\ IsPackage /\ HasName /\ HasResolves) =>
        ((Matches # {} /\ "requires" \notin DOMAIN Resolves[FirstMatch]) =>
            (raised = "KeyError" /\ exit_status = <<1>> /\ stdout = <<>>))

C8_Witness ==
    /\ Dispatched /\ IsPackage /\ HasName /\ HasResolves
    /\ Len(Resolves) = 2
    /\ Resolves[1] = [packageName |-> "m/b", requires |-> <<"a">>]
    /\ Resolves[2] = [packageName |-> "m/a"]
    /\ raised = "KeyError"
    /\ stdout = <<>>

\* C9 as stated: in every invocation the update returns before
\* module-resolve.json is opened, that before module.json is opened, and all
\* three before anything is printed.
C9_Original == EventOrder

\* C9 amended: so it is in every invocation with at least one argument; an
\* invocation with none prints the usage text with no update and no read.
C9_EventOrderWithArguments ==
    /\ Len(argv) >= 2 => EventOrder
    /\ Len(argv) < 2 => \A n \in 1..Len(trace) : trace[n] = "print"

C9_Witness ==
    /\ Done /\ Len(argv) >= 2
    /\ trace = <<"cpm update: returned", "open module-resolve.json",
                 "open module.json", "print">>

\* C10: the process ends once; status 0 goes with exactly one printed line,
\* a result line (for --package the line of the first matching entry), and
\* a printed result line goes with status 0 and nothing else printed.
C10_OneOutcome ==
    /\ (pc = "done") <=> (Len(exit_status) = 1)
    /\ Len(exit_status) <= 1
    /\ exit_status = <<0>> =>
           /\ raised = ""
           /\ Len(stdout) = 1
           /\ SpaceTerminated(stdout[1])
           /\ (IsPackage \/ IsOrder)
           /\ IsPackage =>
                  /\ Matches # {}
                  /\ TokensOf(stdout[1]) = ArtifactPaths(Resolves[FirstMatch].requires)
    /\ (stdout # <<>> /\ ~IsUsage(stdout) /\ ~IsNotFoundLine(stdout[1])) =>
           (exit_status = <<0>> /\ Len(stdout) = 1)

C10_Witness ==
    /\ Dispatched /\ IsPackage /\ HasName /\ HasResolves
    /\ Len(Resolves) = 3
    /\ Resolves[1].packageName = "m/b"
    /\ Resolves[2] = [packageName |-> "m/a", requires |-> <<"a", "b">>]
    /\ Resolves[3] = [packageName |-> "m/a", requires |-> <<"b", "a">>]
    /\ stdout = <<"build/a.cjo build/b.cjo ">>
    /\ exit_status = <<0>>

====
